---- MODULE Spec2Model ----
(***************************************************************************)
(* Model of the space-filling-curve index of src/src/sfc.rs:               *)
(* SpaceFillingCurve::new (the builder), find, find_range, find_by_value   *)
(* and the private helpers encode, value, position, last and limits.       *)
(*                                                                         *)
(* The coordinate quantizer (CellSpace, super::cell_space) and the curve   *)
(* codec (MortonEncoder, super::morton) are used by sfc.rs but their code  *)
(* is not part of the sources at hand; they are modelled from the          *)
(* specification (sections 2, 4.1, 4.3 and 6): a per-dimension dictionary  *)
(* of the distinct coordinate values split into cells, and a bit           *)
(* interleaving of the cell identifiers.                                   *)
(***************************************************************************)
EXTENDS Integers, Sequences, FiniteSets

\* ------------------------------------------------------------------ bounds
MaxItems == 2       \* longest input collection handed to new()
MaxCoord == 1       \* coordinate values are 0..MaxCoord
MaxCellBits == 2    \* cell_bits ranges over 0..MaxCellBits

\* const MAX_K: usize = 3;
MAX_K == 3

Coord == 0..MaxCoord
Payload == {"x", "y"}

VARIABLES
    items,       \* the replayable input: sequence of [key, fields]
    dimensions,  \* SpaceFillingCurve.dimensions
    cell_bits,   \* resolution handed to the encoder and the quantizer
    grid_max,    \* largest coordinate value the quantizer's grid accepts
    space,       \* SpaceFillingCurve.space: one dictionary (cells) per dimension
    index,       \* SpaceFillingCurve.index: sequence of [code, records]
    pc,          \* "new" before construction, then "built" or "panic"
    panic_at,    \* the statement that panicked, "" when none did
    op,          \* the query in flight: [name, a, b, v]
    result       \* what the query in flight returned

vars == <<items, dimensions, cell_bits, grid_max, space, index, pc, panic_at, op, result>>

\* ------------------------------------------------------------- arithmetic
RECURSIVE Pow2(_)
Pow2(n) == IF n = 0 THEN 1 ELSE 2 * Pow2(n - 1)

Bit(v, b) == (v \div Pow2(b)) % 2

RECURSIVE SumTo(_, _)
\* sum of f[1] .. f[n]
SumTo(f, n) == IF n = 0 THEN 0 ELSE f[n] + SumTo(f, n - 1)

RECURSIVE SortedSeq(_)
\* the ascending sequence of a finite set of integers
SortedSeq(S) ==
    IF S = {} THEN <<>>
    ELSE LET m == CHOOSE x \in S : \A y \in S : x <= y
         IN <<m>> \o SortedSeq(S \ {m})

\* the positions with `dimensions` coordinates
Positions(d) == [1..d -> Coord]

\* ------------------------------------------- curve codec (MortonEncoder)
\* encode: interleave the bits of the cell identifiers; fails on a dimension
\* mismatch or an identifier exceeding the bit budget.
MortonEncode(d, bits, v) ==
    IF Len(v) # d \/ \E k \in 1..d : v[k] >= Pow2(bits)
    THEN [ok |-> FALSE, code |-> 0]
    ELSE [ok |-> TRUE,
          code |-> SumTo([k \in 1..d |->
                            SumTo([b \in 1..bits |->
                                     Bit(v[k], b - 1) * Pow2((b - 1) * d + (k - 1))],
                                  bits)],
                         d)]

\* decode: the cell identifiers of a curve code
MortonDecode(d, bits, code) ==
    [k \in 1..d |->
        SumTo([b \in 1..bits |-> Bit(code, (b - 1) * d + (k - 1)) * Pow2(b - 1)], bits)]

\* -------------------------------------------- quantizer (CellSpace)
RECURSIVE Chunks(_, _)
\* split a sequence into consecutive cells of at most n values
Chunks(s, n) ==
    IF Len(s) <= n THEN <<s>>
    ELSE <<SubSeq(s, 1, n)>> \o Chunks(SubSeq(s, n + 1, Len(s)), n)

\* the dictionary of one dimension: the distinct in-grid values of that
\* coordinate, ascending, split into at most 2^cell_bits cells. A value above
\* gmax is out of the grid: it gets no slot, and quantizing a position that
\* has it fails (the Err arm of index.space.key in new). With gmax = MaxCoord
\* every value of the input is in the grid and no item fails.
CellDictionaryNew(its, k, bits, gmax) ==
    LET distinct == SortedSeq({its[i].key[k] : i \in 1..Len(its)} \cap 0..gmax)
        max_offset == (Len(distinct) \div Pow2(bits)) + 1
    IN Chunks(distinct, max_offset)

CellSpaceNew(its, d, bits, gmax) ==
    [k \in 1..d |-> CellDictionaryNew(its, k, bits, gmax)]

\* the (cell, offset) slots of a dictionary, 1-based
Slots(table) == UNION {{<<c, o>> : o \in 1..Len(table[c])} : c \in 1..Len(table)}

\* the slot holding the largest value of the dictionary
DictLast(table) ==
    [ok |-> Slots(table) # {},
     id |-> Len(table) - 1,
     offset |-> Len(table[Len(table)]) - 1]

\* quantize_exact on one coordinate: the slot holding exactly v
DictKey(table, v) ==
    IF \E s \in Slots(table) : table[s[1]][s[2]] = v
    THEN LET s == CHOOSE s \in Slots(table) : table[s[1]][s[2]] = v
         IN [ok |-> TRUE, id |-> s[1] - 1, offset |-> s[2] - 1]
    ELSE [ok |-> FALSE, id |-> 0, offset |-> 0]

\* quantize_round_down on one coordinate: the slot of the largest value <= v,
\* the first slot when v is below every value
DictKeyDown(table, v) ==
    LET below == {s \in Slots(table) : table[s[1]][s[2]] <= v}
    IN IF Slots(table) = {} THEN [ok |-> FALSE, id |-> 0, offset |-> 0]
       ELSE IF below = {} THEN [ok |-> TRUE, id |-> 0, offset |-> 0]
       ELSE LET s == CHOOSE s \in below :
                        \A t \in below : table[t[1]][t[2]] <= table[s[1]][s[2]]
            IN [ok |-> TRUE, id |-> s[1] - 1, offset |-> s[2] - 1]

\* quantize_round_up on one coordinate: the slot of the smallest value >= v,
\* the last slot when v is above every value
DictKeyUp(table, v) ==
    LET above == {s \in Slots(table) : table[s[1]][s[2]] >= v}
    IN IF Slots(table) = {} THEN [ok |-> FALSE, id |-> 0, offset |-> 0]
       ELSE IF above = {} THEN DictLast(table)
       ELSE LET s == CHOOSE s \in above :
                        \A t \in above : table[s[1]][s[2]] <= table[t[1]][t[2]]
            IN [ok |-> TRUE, id |-> s[1] - 1, offset |-> s[2] - 1]

\* lift a per-coordinate answer to a position: (cell ids, offsets) or failure
Lift(sp, q) ==
    [ok |-> \A k \in DOMAIN sp : q[k].ok,
     cells |-> [k \in DOMAIN sp |-> q[k].id],
     offsets |-> [k \in DOMAIN sp |-> q[k].offset]]

SpaceKey(sp, position) == Lift(sp, [k \in DOMAIN sp |-> DictKey(sp[k], position[k])])
SpaceKeyDown(sp, position) == Lift(sp, [k \in DOMAIN sp |-> DictKeyDown(sp[k], position[k])])
SpaceKeyUp(sp, position) == Lift(sp, [k \in DOMAIN sp |-> DictKeyUp(sp[k], position[k])])
SpaceLast(sp) == Lift(sp, [k \in DOMAIN sp |-> DictLast(sp[k])])

\* reconstruct: the coordinate values stored at (cell ids, offsets)
SpaceValue(sp, cells, offsets) ==
    IF \A k \in DOMAIN sp : <<cells[k] + 1, offsets[k] + 1>> \in Slots(sp[k])
    THEN [ok |-> TRUE,
          position |-> [k \in DOMAIN sp |-> sp[k][cells[k] + 1][offsets[k] + 1]]]
    ELSE [ok |-> FALSE, position |-> <<>>]

\* --------------------------------------------------- private helpers of sfc.rs
\* fn encode(&self, cell_ids)
encode(cell_ids) == MortonEncode(dimensions, cell_bits, cell_ids)

\* fn last(&self)
last == SpaceLast(space)

\* fn value(&self, code, offsets)
value(code, offsets) ==
    SpaceValue(space, MortonDecode(dimensions, cell_bits, code), offsets)

\* fn position(&self, code, offsets): the key rebuilt from the values
position(code, offsets) == value(code, offsets)

\* self.index.binary_search_by(|e| e.code.cmp(&code)): Ok(i) with the 0-based
\* index of a cell holding the code, Err(i) with its insertion point
BinarySearch(idx, code) ==
    IF \E i \in 1..Len(idx) : idx[i].code = code
    THEN [found |-> TRUE, at |-> (CHOOSE i \in 1..Len(idx) : idx[i].code = code) - 1]
    ELSE [found |-> FALSE, at |-> Cardinality({i \in 1..Len(idx) : idx[i].code < code})]

\* ------------------------------------------------------ SpaceFillingCurve::new
\* one turn of the loop of step 2: index.space.key(&position), then
\* index.encode(&cell_ids); ok is FALSE on either Err arm
Quantize(sp, it) ==
    LET q == SpaceKey(sp, it.key)
        e == encode(q.cells)
    IN [ok |-> q.ok /\ e.ok,
        code |-> e.code,
        record |-> [offsets |-> q.offsets, fields |-> it.fields]]

RECURSIVE FlatTable(_, _)
\* the flat table of (code, record) after the loop: the items of either Err arm
\* are logged and skipped
FlatTable(sp, its) ==
    IF its = <<>> THEN <<>>
    ELSE LET r == Quantize(sp, Head(its))
         IN (IF r.ok THEN <<[code |-> r.code, record |-> r.record]>> ELSE <<>>)
            \o FlatTable(sp, Tail(its))

\* *array_ref!(offsets, 0, MAX_K) slices offsets[0..MAX_K]: it panics on a
\* vector of fewer than MAX_K offsets
ArrayRefPanics(offsets) == Len(offsets) < MAX_K

Orderings(n) ==
    {p \in [1..n -> 1..n] : \A i, j \in 1..n : i # j => p[i] # p[j]}

\* the table left in input order, as if the sort had been left out
sort_left_out(flat) == {flat}

\* flat_table.sort_unstable_by(|a, b| a.0.cmp(&b.0)): ascending by code; the
\* order of the pairs of equal code is unspecified, so every such order
sort_unstable_by(flat) ==
    {[i \in 1..Len(flat) |-> flat[p[i]]] :
        p \in {q \in Orderings(Len(flat)) :
                 \A i, j \in 1..Len(flat) : i < j => flat[q[i]].code <= flat[q[j]].code}}

RECURSIVE GroupCells_empty_cell(_, _, _, _, _)
\* the walk, opening each new cell with records: vec![] and so losing the
\* record that opened it
GroupCells_empty_cell(flat, i, cells, current, count) ==
    IF i > Len(flat) THEN cells
    ELSE IF flat[i].code = current
    THEN GroupCells_empty_cell(flat, i + 1,
                    [cells EXCEPT ![count + 1].records = Append(@, flat[i].record)],
                    current, count)
    ELSE GroupCells_empty_cell(flat, i + 1,
                    Append(cells, [code |-> flat[i].code, records |-> <<>>]),
                    flat[i].code, count + 1)

RECURSIVE GroupCells(_, _, _, _, _)
\* the walk over the sorted table: i is the next pair, cells is index.index,
\* current is current_cell_code and count the position of the open cell
GroupCells(flat, i, cells, current, count) ==
    IF i > Len(flat) THEN cells
    ELSE IF flat[i].code = current
    THEN GroupCells(flat, i + 1,
                    [cells EXCEPT ![count + 1].records = Append(@, flat[i].record)],
                    current, count)
    ELSE GroupCells(flat, i + 1,
                    Append(cells, [code |-> flat[i].code, records |-> <<flat[i].record>>]),
                    flat[i].code, count + 1)

\* the cells built from a sorted, non-empty table
BuildIndex(flat) ==
    GroupCells(flat, 1, <<[code |-> flat[1].code, records |-> <<>>]>>, flat[1].code, 0)

new ==
    /\ pc = "new"
    /\ LET sp == CellSpaceNew(items, dimensions, cell_bits, grid_max)
           flat_table == FlatTable(sp, items)
       IN /\ space' = sp
          /\ IF \E i \in 1..Len(flat_table) : ArrayRefPanics(flat_table[i].record.offsets)
             THEN /\ pc' = "panic"
                  /\ panic_at' = "array_ref"
                  /\ index' = <<>>
             ELSE IF flat_table = <<>>
             THEN \* let mut current_cell_code = flat_table[0].0;
                  /\ pc' = "panic"
                  /\ panic_at' = "flat_table[0]"
                  /\ index' = <<>>
             ELSE \E sorted \in sort_unstable_by(flat_table) :
                  /\ index' = BuildIndex(sorted)
                  /\ pc' = "built"
                  /\ panic_at' = ""
    /\ UNCHANGED <<items, dimensions, cell_bits, grid_max, op, result>>

\* ------------------------------------------------------------------ queries
Fields(recs) == [i \in 1..Len(recs) |-> recs[i].fields]

\* find leaving the scan of the cell at the first selected record
find_first_only(key) ==
    LET q == SpaceKey(space, key)
        e == encode(q.cells)
        cell == BinarySearch(index, e.code)
        select(record) ==
            \A k \in 1..dimensions : k <= Len(q.offsets) => record.offsets[k] = q.offsets[k]
        selected == IF q.ok /\ e.ok /\ cell.found
                    THEN Fields(SelectSeq(index[cell.at + 1].records, select))
                    ELSE <<>>
    IN IF selected = <<>> THEN <<>> ELSE <<Head(selected)>>

\* fn find(&self, key)
find(key) ==
    LET q == SpaceKey(space, key)
        e == encode(q.cells)
        cell == BinarySearch(index, e.code)
        select(record) ==
            \A k \in 1..dimensions : k <= Len(q.offsets) => record.offsets[k] = q.offsets[k]
    IN IF q.ok /\ e.ok /\ cell.found
       THEN Fields(SelectSeq(index[cell.at + 1].records, select))
       ELSE <<>>

RECURSIVE Flatten(_)
Flatten(ss) == IF ss = <<>> THEN <<>> ELSE Head(ss) \o Flatten(Tail(ss))

\* the (key, fields) of the records whose key can be rebuilt
Keyed(code, recs) ==
    Flatten([i \in 1..Len(recs) |->
        LET p == position(code, recs[i].offsets)
        IN IF p.ok THEN <<[key |-> p.position, fields |-> recs[i].fields]>> ELSE <<>>])

\* find_by_value without the test &record.fields == value
find_by_value_unfiltered(v) ==
    LET found == Flatten([c \in 1..Len(index) |-> Keyed(index[c].code, index[c].records)])
    IN [i \in 1..Len(found) |-> found[i].key]

\* fn find_by_value(&self, value)
find_by_value(v) ==
    LET matching(record) == record.fields = v
        found == Flatten([c \in 1..Len(index) |->
                    Keyed(index[c].code, SelectSeq(index[c].records, matching))])
    IN [i \in 1..Len(found) |-> found[i].key]

\* fn limits(&self, start, end): the range of cells [start.idx, end.idx), 0-based
limits(start, end) ==
    LET down == SpaceKeyDown(space, start)
        dcode == encode(down.cells)
        dfind == BinarySearch(index, dcode.code)
        didx == IF dfind.found THEN dfind.at
                ELSE IF dfind.at > 0 THEN dfind.at - 1 ELSE 0
        dpos == SpaceValue(space, down.cells, down.offsets)
        up == SpaceKeyUp(space, end)
        ucode == encode(up.cells)
        ufind == BinarySearch(index, ucode.code)
        uidx == IF ufind.found THEN ufind.at + 1
                ELSE IF ufind.at >= Len(index) THEN Len(index) ELSE ufind.at
        upos == SpaceValue(space, up.cells, up.offsets)
    IN [ok |-> down.ok /\ dcode.ok /\ dpos.ok /\ up.ok /\ ucode.ok /\ upos.ok,
        start_idx |-> didx,
        end_idx |-> uidx]

\* a.iter().zip(b.iter()).all(|(a, b)| a <= b): over the common prefix
ZipAllLe(a, b) ==
    \A k \in 1..(IF Len(a) < Len(b) THEN Len(a) ELSE Len(b)) : a[k] <= b[k]

\* the body of the loop of find_range for the cell at idx (0-based).
\* start_pos and end_pos read start[0..2] and end[0..2] whatever `dimensions`
\* is; an index is only ever built with dimensions = MAX_K (see new), so the
\* three reads are inside the position.
RangeCell(idx, start, end) ==
    LET code == index[idx + 1].code
        recs == index[idx + 1].records
        first == value(code, recs[1].offsets)
        l == last
        last_pos == SpaceValue(space, l.cells, l.offsets)
        start_pos == <<start[1], start[2], start[3]>>
        end_pos == <<end[1], end[2], end[3]>>
        first_after_start == ZipAllLe(start_pos, first.position)
        last_after_start == ZipAllLe(start_pos, last_pos.position)
        first_before_end == ZipAllLe(first.position, end_pos)
        last_before_end == ZipAllLe(last_pos.position, end_pos)
        inside(record) ==
            LET pos == value(code, record.offsets)
            IN pos.ok /\ ZipAllLe(start_pos, pos.position) /\ ZipAllLe(pos.position, end_pos)
    IN IF ~first.ok \/ ~l.ok \/ ~last_pos.ok THEN <<>>
       ELSE IF first_after_start /\ last_after_start /\ first_before_end /\ last_before_end
       THEN Keyed(code, recs)
       ELSE Keyed(code, SelectSeq(recs, inside))

\* fn find_range(&self, start, end)
find_range(start, end) ==
    LET lim == limits(start, end)
    IN IF ~lim.ok \/ lim.end_idx <= lim.start_idx THEN <<>>
       ELSE Flatten([n \in 1..(lim.end_idx - lim.start_idx) |->
                        RangeCell(lim.start_idx + n - 1, start, end)])

NoQuery == [name |-> "none", a |-> <<>>, b |-> <<>>, v |-> ""]

call_find ==
    /\ pc = "built"
    /\ op = NoQuery
    /\ \E key \in Positions(dimensions) :
        /\ op' = [name |-> "find", a |-> key, b |-> key, v |-> ""]
        /\ result' = find(key)
    /\ UNCHANGED <<items, dimensions, cell_bits, grid_max, space, index, pc, panic_at>>

call_find_range ==
    /\ pc = "built"
    /\ op = NoQuery
    /\ \E start \in Positions(dimensions), end \in Positions(dimensions) :
        /\ op' = [name |-> "find_range", a |-> start, b |-> end, v |-> ""]
        /\ result' = find_range(start, end)
    /\ UNCHANGED <<items, dimensions, cell_bits, grid_max, space, index, pc, panic_at>>

call_find_by_value ==
    /\ pc = "built"
    /\ op = NoQuery
    /\ \E v \in Payload :
        /\ op' = [name |-> "find_by_value", a |-> <<>>, b |-> <<>>, v |-> v]
        /\ result' = find_by_value(v)
    /\ UNCHANGED <<items, dimensions, cell_bits, grid_max, space, index, pc, panic_at>>

\* the caller takes the result; the index is read-only and is left as it is
return ==
    /\ op # NoQuery
    /\ op' = NoQuery
    /\ result' = <<>>
    /\ UNCHANGED <<items, dimensions, cell_bits, grid_max, space, index, pc, panic_at>>

\* --------------------------------------------------------------- behaviour
Items(d) == [key : Positions(d), fields : Payload]

SeqsUpTo(S, n) == UNION {[1..m -> S] : m \in 0..n}

Init ==
    /\ dimensions \in 1..MAX_K
    /\ cell_bits \in 0..MaxCellBits
    /\ grid_max \in Coord
    /\ items \in SeqsUpTo(Items(dimensions), MaxItems)
    /\ space = <<>>
    /\ index = <<>>
    /\ pc = "new"
    /\ panic_at = ""
    /\ op = NoQuery
    /\ result = <<>>

Next == new \/ call_find \/ call_find_range \/ call_find_by_value \/ return

Spec == Init /\ [][Next]_vars

\* ------------------------------------------------------------ vocabulary
\* item i was quantized and encoded by the builder (it took no Err arm)
Indexed(i) == pc # "new" /\ Quantize(space, items[i]).ok

IndexedItems == {i \in 1..Len(items) : Indexed(i)}

\* how many entries of a sequence equal x
Count(s, x) == Cardinality({j \in 1..Len(s) : s[j] = x})

\* start <= p <= end in every dimension
Within(p, start, end) == \A k \in 1..dimensions : start[k] <= p[k] /\ p[k] <= end[k]

\* the records of the input whose curve code is c, in input order
InputRecords(c) ==
    LET flat == FlatTable(space, items)
        has(e) == e.code = c
        sel == SelectSeq(flat, has)
    IN [i \in 1..Len(sel) |-> sel[i].record]

\* the sort left the records of equal code in input order
KeptInputOrder == \A c \in 1..Len(index) : index[c].records = InputRecords(index[c].code)

\* the payloads of the indexed items of a key, in input order
InputPayloads(key) ==
    LET at(it) == it.key = key /\ Quantize(space, it).ok
    IN Fields(SelectSeq(items, at))

\* every record held by the index, cell after cell
AllRecords == Flatten([c \in 1..Len(index) |-> index[c].records])

\* ------------------------------------------------------------------ claims

\* C1: for every item the builder quantized and encoded, find on that item's
\* key returns a sequence that includes the item's payload.
C1_FindIncludesPayload ==
    (pc = "built" /\ op.name = "find") =>
        \A i \in IndexedItems :
            items[i].key = op.a => \E j \in 1..Len(result) : result[j] = items[i].fields

\* find was called on a key shared by two items of different payloads
C1_Witness ==
    /\ pc = "built" /\ op.name = "find"
    /\ \E i, j \in IndexedItems :
        /\ i # j /\ items[i].key = op.a /\ items[j].key = op.a
        /\ items[i].fields # items[j].fields
    /\ Len(result) = 2

\* C2: building from an empty valid item set (no items, or every item dropped)
\* succeeds and yields an index with zero cells.
C2_EmptyBuildSucceeds ==
    (pc # "new" /\ IndexedItems = {}) => (pc = "built" /\ index = <<>>)

\* C3: after build the cell codes are strictly ascending (no two cells share
\* a code) and every record of the input with a given code is in the one cell
\* with that code.
C3_CellsStrictlyAscending ==
    pc = "built" =>
        /\ \A i, j \in 1..Len(index) : i < j => index[i].code < index[j].code
        /\ \A i \in IndexedItems :
            LET q == Quantize(space, items[i])
            IN \E c \in 1..Len(index) :
                /\ index[c].code = q.code
                /\ \E r \in 1..Len(index[c].records) : index[c].records[r] = q.record

\* an index of two cells built from an input given in descending code order
C3_Witness ==
    /\ pc = "built" /\ Len(index) = 2 /\ Len(items) = 2
    /\ IndexedItems = {1, 2}
    /\ Quantize(space, items[1]).code > Quantize(space, items[2]).code

C5_PointRangeMatchesFind ==
    (pc = "built" /\ KeptInputOrder /\ op.name = "find_range" /\ op.a = op.b
        /\ \E i \in IndexedItems : items[i].key = op.a) =>
        /\ \A j \in 1..Len(result) : result[j].key = op.a
        /\ Fields(result) = find(op.a)

\* C6: for [a', b'] contained in [a, b], find_range(a, b) restricted to the
\* records whose key lies within [a', b'] equals find_range(a', b').
\* (Stated for the builds whose sort kept the input order.)
C6_ContainmentMonotone ==
    (pc = "built" /\ KeptInputOrder /\ op.name = "find_range" /\ Within(op.a, op.a, op.b)) =>
        \A a2, b2 \in Positions(dimensions) :
            (Within(a2, op.a, op.b) /\ Within(b2, a2, op.b)) =>
                LET inner(e) == Within(e.key, a2, b2)
                IN SelectSeq(result, inner) = find_range(a2, b2)

\* C7: find_by_value(v) returns exactly the keys of the indexed items whose
\* payload is v, one per matching record, and nothing when there is none.
C7_FindByValueExact ==
    (pc = "built" /\ op.name = "find_by_value") =>
        /\ Len(result) = Cardinality({i \in IndexedItems : items[i].fields = op.v})
        /\ \A k \in Positions(dimensions) :
            Count(result, k) =
                Cardinality({i \in IndexedItems : items[i].fields = op.v /\ items[i].key = k})

\* find_by_value returned one key of two indexed items: the other has another payload
C7_Witness ==
    /\ pc = "built" /\ op.name = "find_by_value"
    /\ IndexedItems = {1, 2}
    /\ items[1].fields # items[2].fields /\ items[1].key # items[2].key
    /\ Len(result) = 1

\* C8: an item whose quantization or encoding fails is dropped and the build
\* goes on: it does not abort, and the index holds one record for every item
\* that was quantized and encoded, none for the others. (Stated for the
\* dimension count MAX_K, where no offset vector is shorter than MAX_K.)
C8_BadItemDropped ==
    (pc # "new" /\ dimensions = MAX_K /\ \E i \in 1..Len(items) : ~Indexed(i)) =>
        /\ pc = "built"
        /\ Len(AllRecords) = Cardinality(IndexedItems)
        /\ \A i \in IndexedItems :
            \E r \in 1..Len(AllRecords) : AllRecords[r] = Quantize(space, items[i]).record

\* C9: every (key, payload) returned by find_range(start, end) has
\* start[i] <= key[i] <= end[i] in every dimension, the records of a cell
\* accepted on the fast path included. (Stated for the builds whose sort kept
\* the input order.)
C9_ResultsInsideBox ==
    (pc = "built" /\ KeptInputOrder /\ op.name = "find_range") =>
        \A j \in 1..Len(result) : Within(result[j].key, op.a, op.b)

\* C10: for every dimension count from 1 to MAX_K the build stores the offsets
\* of the items without failing.
C10_AnyDimensionCount ==
    (pc # "new" /\ IndexedItems # {}) =>
        /\ pc = "built"
        /\ \A i \in IndexedItems :
            \E r \in 1..Len(AllRecords) :
                \A k \in 1..dimensions :
                    AllRecords[r].offsets[k] = Quantize(space, items[i]).record.offsets[k]

====
